---- MODULE Spec2Model ----
(***************************************************************************)
(* biquad: second order IIR filter sections.                               *)
(*                                                                         *)
(* The two realizations of src/lib.rs (DirectForm1, DirectForm2Transposed) *)
(* work on f32 samples.  The model keeps f32 arithmetic on the f32 values  *)
(* that are integers: the sum, difference or product of two such values is *)
(* an integer, and the f32 result is that integer rounded to a 24 bit      *)
(* significand, ties to even (RoundF32).  Values stay far below f32::MAX,  *)
(* so no operation overflows; NaN and the infinities are not modelled.     *)
(*                                                                         *)
(* The modules `coefficients` and `frequency` (lib.rs:53-54) are declared  *)
(* and used by lib.rs but their files are not part of the sources at hand: *)
(* from_hz, hz and from_params are written from the specification.         *)
(***************************************************************************)
EXTENDS Integers, Sequences, FiniteSets

VARIABLES df1, df2, hist, api

vars == <<df1, df2, hist, api>>

----------------------------------------------------------------------------
(* Bounds of the model *)

\* the longest sequence of calls made on one instance
MaxCalls == 3
\* the longest input vector fed to the pair of instances
MaxSamples == 4
\* frequencies handed to the constructors are -MaxHz..MaxHz (in hertz)
MaxHz == 4
\* Q values handed to from_params are -MaxQ..MaxQ
MaxQ == 2

----------------------------------------------------------------------------
(* f32 on integer values *)

\* width of the f32 significand (implicit bit included)
Mantissa == 24

Abs(x) == IF x < 0 THEN -x ELSE x

\* spacing of the f32 values around magnitude a (a >= 0): 1 below 2^24,
\* doubling with every further binade
RECURSIVE Ulp(_)
Ulp(a) == IF a < 2^Mantissa THEN 1 ELSE 2 * Ulp(a \div 2)

\* round to nearest f32, ties to even
RoundF32(x) ==
    LET a == Abs(x)
        u == Ulp(a)
        q == a \div u
        r == a % u
        m == IF 2 * r < u THEN q * u
             ELSE IF 2 * r > u THEN (q + 1) * u
             ELSE IF q % 2 = 0 THEN q * u ELSE (q + 1) * u
    IN  IF x < 0 THEN -m ELSE m

fmul(a, b) == RoundF32(a * b)
fadd(a, b) == RoundF32(a + b)
fsub(a, b) == RoundF32(a - b)

----------------------------------------------------------------------------
(* Values the calls are made with *)

\* the smallest magnitude from which f32 no longer holds every integer
Big == 2^Mantissa

\* sample values fed to run
Samples == {-1, 0, 1, Big}

TapVals == {-1, 0, 1}

\* struct Coefficients { a1, a2, b0, b1, b2 }
Coefficients == [b0 : TapVals, b1 : TapVals, b2 : TapVals, a1 : TapVals, a2 : TapVals]

Coef(b0, b1, b2, a1, a2) == [b0 |-> b0, b1 |-> b1, b2 |-> b2, a1 |-> a1, a2 |-> a2]

\* the coefficient sets an instance is retuned to
Retunes == {Coef(b, b, b, a, a) : b \in {-1, 1}, a \in {-1, 1}}

----------------------------------------------------------------------------
(* DirectForm1 *)

DirectForm1_new_nonzero(coefficients) ==
    [y1 |-> 1, y2 |-> 0, x1 |-> 0, x2 |-> 0, coeffs |-> coefficients]

DirectForm1_new(coefficients) ==
    [y1 |-> 0, y2 |-> 0, x1 |-> 0, x2 |-> 0, coeffs |-> coefficients]

\* the value of `out` in DirectForm1::run
DirectForm1_out_swapped(self, input) ==
    fsub(fsub(fadd(fadd(fmul(self.coeffs.b0, input),
                        fmul(self.coeffs.b1, self.x2)),
                   fmul(self.coeffs.b2, self.x1)),
              fmul(self.coeffs.a1, self.y1)),
         fmul(self.coeffs.a2, self.y2))

DirectForm1_out(self, input) ==
    fsub(fsub(fadd(fadd(fmul(self.coeffs.b0, input),
                        fmul(self.coeffs.b1, self.x1)),
                   fmul(self.coeffs.b2, self.x2)),
              fmul(self.coeffs.a1, self.y1)),
         fmul(self.coeffs.a2, self.y2))

\* DirectForm1::run: the instance after the call and the value returned
DirectForm1_run_noshift(self, input) ==
    LET out == DirectForm1_out(self, input)
    IN  [self |-> [self EXCEPT !.x1 = input, !.y1 = out], out |-> out]

DirectForm1_run(self, input) ==
    LET out == DirectForm1_out(self, input)
    IN  [self |-> [self EXCEPT !.x2 = self.x1, !.x1 = input,
                               !.y2 = self.y1, !.y1 = out],
         out  |-> out]

DirectForm1_update_coefficients_reset(self, new_coefficients) ==
    DirectForm1_new(new_coefficients)

DirectForm1_update_coefficients(self, new_coefficients) ==
    [self EXCEPT !.coeffs = new_coefficients]

----------------------------------------------------------------------------
(* DirectForm2Transposed *)

DirectForm2Transposed_new(coefficients) ==
    [s1 |-> 0, s2 |-> 0, coeffs |-> coefficients]

\* s2 is written before s1 reads it
DirectForm2Transposed_run_s2first(self, input) ==
    LET out == fadd(self.s1, fmul(self.coeffs.b0, input))
        s2  == fsub(fmul(self.coeffs.b2, input), fmul(self.coeffs.a2, out))
        s1  == fsub(fadd(s2, fmul(self.coeffs.b1, input)),
                    fmul(self.coeffs.a1, out))
    IN  [self |-> [self EXCEPT !.s1 = s1, !.s2 = s2], out |-> out]

\* DirectForm2Transposed::run: the instance after the call and the value returned
DirectForm2Transposed_run(self, input) ==
    LET out == fadd(self.s1, fmul(self.coeffs.b0, input))
        s1  == fsub(fadd(self.s2, fmul(self.coeffs.b1, input)),
                    fmul(self.coeffs.a1, out))
        s2  == fsub(fmul(self.coeffs.b2, input), fmul(self.coeffs.a2, out))
    IN  [self |-> [self EXCEPT !.s1 = s1, !.s2 = s2], out |-> out]

DirectForm2Transposed_update_coefficients_reset(self, new_coefficients) ==
    DirectForm2Transposed_new(new_coefficients)

DirectForm2Transposed_update_coefficients(self, new_coefficients) ==
    [self EXCEPT !.coeffs = new_coefficients]

----------------------------------------------------------------------------
(* One DirectForm1 instance: new, then run and update_coefficients calls in *)
(* any order.  hist records every call with the instance before and after.  *)

NoCall == [fn |-> "none"]

InitDF1 ==
    /\ \E c \in Coefficients :
          /\ df1 = DirectForm1_new(c)
          /\ df2 = DirectForm2Transposed_new(c)
    /\ hist = <<>>
    /\ api = NoCall

Run1(input) ==
    /\ Len(hist) < MaxCalls
    /\ LET r == DirectForm1_run(df1, input)
       IN  /\ df1' = r.self
           /\ hist' = Append(hist, [op |-> "run", input |-> input, out |-> r.out,
                                    pre |-> df1, post |-> r.self])
    /\ UNCHANGED <<df2, api>>

Update1(new_coefficients) ==
    /\ Len(hist) < MaxCalls
    /\ df1' = DirectForm1_update_coefficients(df1, new_coefficients)
    /\ hist' = Append(hist, [op |-> "update_coefficients", newc |-> new_coefficients,
                             pre |-> df1, post |-> df1'])
    /\ UNCHANGED <<df2, api>>

NextDF1 ==
    \/ \E input \in Samples : Run1(input)
    \/ \E c \in Retunes : Update1(c)

SpecDF1 == InitDF1 /\ [][NextDF1]_vars

----------------------------------------------------------------------------
(* One DirectForm2Transposed instance *)

InitDF2 == InitDF1

Run2(input) ==
    /\ Len(hist) < MaxCalls
    /\ LET r == DirectForm2Transposed_run(df2, input)
       IN  /\ df2' = r.self
           /\ hist' = Append(hist, [op |-> "run", input |-> input, out |-> r.out,
                                    pre |-> df2, post |-> r.self])
    /\ UNCHANGED <<df1, api>>

Update2(new_coefficients) ==
    /\ Len(hist) < MaxCalls
    /\ df2' = DirectForm2Transposed_update_coefficients(df2, new_coefficients)
    /\ hist' = Append(hist, [op |-> "update_coefficients", newc |-> new_coefficients,
                             pre |-> df2, post |-> df2'])
    /\ UNCHANGED <<df1, api>>

NextDF2 ==
    \/ \E input \in Samples : Run2(input)
    \/ \E c \in Retunes : Update2(c)

SpecDF2 == InitDF2 /\ [][NextDF2]_vars

----------------------------------------------------------------------------
(* The pair of instances of the crate example and of test_biquad_zeros: one  *)
(* coefficient set, one DirectForm1 and one DirectForm2Transposed built from *)
(* it, and every element of the input vector run through both.               *)

Exact(x) == RoundF32(x) = x

\* no operation of DirectForm1::run rounds (each operand being exact, the
\* partial sums below are the operands the code adds)
DirectForm1_exact(self, input) ==
    LET c  == self.coeffs
        p0 == c.b0 * input
        p1 == c.b1 * self.x1
        p2 == c.b2 * self.x2
        p3 == c.a1 * self.y1
        p4 == c.a2 * self.y2
    IN  /\ \A p \in {p0, p1, p2, p3, p4} : Exact(p)
        /\ Exact(p0 + p1)
        /\ Exact(p0 + p1 + p2)
        /\ Exact(p0 + p1 + p2 - p3)
        /\ Exact(p0 + p1 + p2 - p3 - p4)

\* no operation of DirectForm2Transposed::run rounds
DirectForm2Transposed_exact(self, input) ==
    LET c   == self.coeffs
        p0  == c.b0 * input
        out == self.s1 + p0
        p1  == c.b1 * input
        p2  == c.a1 * out
        p3  == c.b2 * input
        p4  == c.a2 * out
    IN  /\ \A p \in {p0, out, p1, p2, p3, p4} : Exact(p)
        /\ Exact(self.s2 + p1)
        /\ Exact(self.s2 + p1 - p2)
        /\ Exact(p3 - p4)

InitPair == InitDF1

\* the body of `for elem in input_vec`
RunBoth(elem) ==
    /\ Len(hist) < MaxSamples
    /\ LET r1 == DirectForm1_run(df1, elem)
           r2 == DirectForm2Transposed_run(df2, elem)
       IN  /\ df1' = r1.self
           /\ df2' = r2.self
           /\ hist' = Append(hist,
                  [input |-> elem, out1 |-> r1.out, out2 |-> r2.out,
                   exact |-> /\ DirectForm1_exact(df1, elem)
                             /\ DirectForm2Transposed_exact(df2, elem)])
    /\ UNCHANGED api

NextPair == \E elem \in Samples : RunBoth(elem)

SpecPair == InitPair /\ [][NextPair]_vars

----------------------------------------------------------------------------
(* Frequencies and the coefficient designer (modules frequency and          *)
(* coefficients).  A frequency is held in whole hertz; q is a whole number. *)

Ok(v) == [tag |-> "Ok", value |-> v]
Err(e) == [tag |-> "Err", error |-> e]
Panic == [tag |-> "panic"]

Type == {"LowPass", "HighPass", "BandPass", "Notch", "AllPass",
         "LowShelf", "HighShelf", "PeakingEQ"}

\* Hertz::from_hz
from_hz_rejects_zero(value) ==
    IF value <= 0 THEN Err("NegativeFrequency") ELSE Ok([hz |-> value])

from_hz(value) ==
    IF value < 0 THEN Err("NegativeFrequency") ELSE Ok([hz |-> value])

\* the literal helper .hz(): from_hz, unwrapped
hz(value) ==
    LET r == from_hz(value)
    IN  IF r.tag = "Err" THEN Panic ELSE r.value

\* the frequencies that can be built
Hertz == {from_hz(v).value : v \in 0..MaxHz}

\* what a successful design returns; the taps themselves (trigonometric
\* expressions of f0/fs and q) are not modelled
Designed(filter, fs, f0, q_value) ==
    [filter |-> filter, fs |-> fs, f0 |-> f0, q |-> q_value]

\* Coefficients::from_params; f0 >= fs/2 is decided as 2*f0 >= fs
from_params_q_first(filter, fs, f0, q_value) ==
    IF q_value <= 0 THEN Err("NegativeQ")
    ELSE IF 2 * f0.hz >= fs.hz THEN Err("OutsideNyquist")
    ELSE Ok(Designed(filter, fs, f0, q_value))

from_params_q_zero_allowed(filter, fs, f0, q_value) ==
    IF 2 * f0.hz >= fs.hz THEN Err("OutsideNyquist")
    ELSE IF q_value < 0 THEN Err("NegativeQ")
    ELSE Ok(Designed(filter, fs, f0, q_value))

from_params(filter, fs, f0, q_value) ==
    IF 2 * f0.hz >= fs.hz THEN Err("OutsideNyquist")
    ELSE IF q_value <= 0 THEN Err("NegativeQ")
    ELSE Ok(Designed(filter, fs, f0, q_value))

InitDesign ==
    /\ df1 = DirectForm1_new(Coef(0, 0, 0, 0, 0))
    /\ df2 = DirectForm2Transposed_new(Coef(0, 0, 0, 0, 0))
    /\ hist = <<>>
    /\ api = NoCall

CallFromHz(value) ==
    /\ api' = [fn |-> "from_hz", value |-> value, res |-> from_hz(value)]
    /\ UNCHANGED <<df1, df2, hist>>

CallHz(value) ==
    /\ api' = [fn |-> "hz", value |-> value, res |-> hz(value)]
    /\ UNCHANGED <<df1, df2, hist>>

CallFromParams(filter, fs, f0, q_value) ==
    /\ api' = [fn |-> "from_params", filter |-> filter, fs |-> fs, f0 |-> f0,
               q |-> q_value, res |-> from_params(filter, fs, f0, q_value)]
    /\ UNCHANGED <<df1, df2, hist>>

NextDesign ==
    \/ \E v \in -MaxHz..MaxHz : CallFromHz(v)
    \/ \E v \in -MaxHz..MaxHz : CallHz(v)
    \/ \E filter \in Type, fs \in Hertz, f0 \in Hertz, q \in -MaxQ..MaxQ :
          CallFromParams(filter, fs, f0, q)

SpecDesign == InitDesign /\ [][NextDesign]_vars

----------------------------------------------------------------------------
(* Properties.  Last is the most recent call recorded in hist.              *)

Last == hist[Len(hist)]

AllTapsNonZero(c) == c.b0 # 0 /\ c.b1 # 0 /\ c.b2 # 0 /\ c.a1 # 0 /\ c.a2 # 0

\* C1 (SpecDF1): DirectForm1::run returns
\* b0*input + b1*x1 + b2*x2 - a1*y1 - a2*y2 over the values held before the
\* call (f32 operations, left to right), leaves x2 = old x1, x1 = input,
\* y2 = old y1, y1 = the value returned, and does not change the coefficients.
C1_RunContract ==
    (hist # <<>> /\ Last.op = "run") =>
        LET p == Last.pre
            c == p.coeffs
            i == Last.input
            expected ==
                fsub(fsub(fadd(fadd(fmul(c.b0, i), fmul(c.b1, p.x1)),
                               fmul(c.b2, p.x2)),
                          fmul(c.a1, p.y1)),
                     fmul(c.a2, p.y2))
        IN  /\ Last.out = expected
            /\ df1.x2 = p.x1
            /\ df1.x1 = i
            /\ df1.y2 = p.y1
            /\ df1.y1 = Last.out
            /\ df1.coeffs = c

\* a run in which all five terms of the sum are non-zero
C1_Witness ==
    /\ hist # <<>>
    /\ Last.op = "run"
    /\ AllTapsNonZero(Last.pre.coeffs)
    /\ Last.input # 0
    /\ Last.pre.x1 # 0 /\ Last.pre.x2 # 0 /\ Last.pre.y1 # 0 /\ Last.pre.y2 # 0
    /\ Last.pre.x1 # Last.pre.x2
    /\ Last.out # 0

\* C2 (SpecDF2): DirectForm2Transposed::run returns old s1 + b0*input and
\* leaves s1 = old s2 + b1*input - a1*output, s2 = b2*input - a2*output,
\* coefficients unchanged.
C2_RunContract ==
    (hist # <<>> /\ Last.op = "run") =>
        LET p == Last.pre
            c == p.coeffs
            i == Last.input
            o == fadd(p.s1, fmul(c.b0, i))
        IN  /\ Last.out = o
            /\ df2.s1 = fsub(fadd(p.s2, fmul(c.b1, i)), fmul(c.a1, o))
            /\ df2.s2 = fsub(fmul(c.b2, i), fmul(c.a2, o))
            /\ df2.coeffs = c

\* a run from non-zero registers in which every term is non-zero and the
\* new s2 differs from the old one
C2_Witness ==
    /\ hist # <<>>
    /\ Last.op = "run"
    /\ AllTapsNonZero(Last.pre.coeffs)
    /\ Last.input # 0
    /\ Last.pre.s1 # 0 /\ Last.pre.s2 # 0
    /\ Last.out # 0
    /\ df2.s2 # Last.pre.s2

\* C4 (SpecDF1): DirectForm1::update_coefficients installs the new
\* coefficients and leaves x1, x2, y1, y2 as they were; so after
\* run(non-zero), update_coefficients(new), run(0) the value returned is
\* b1'*x1 + b2'*x2 - a1'*y1 - a2'*y2 over the delay lines the first run left.
C4_UpdateKeepsHistory ==
    /\ (hist # <<>> /\ Last.op = "update_coefficients") =>
          /\ df1.coeffs = Last.newc
          /\ df1.x1 = Last.pre.x1 /\ df1.x2 = Last.pre.x2
          /\ df1.y1 = Last.pre.y1 /\ df1.y2 = Last.pre.y2
    /\ \A k \in 3..Len(hist) :
          ( /\ hist[k-2].op = "run" /\ hist[k-2].input # 0
            /\ hist[k-1].op = "update_coefficients"
            /\ hist[k].op = "run" /\ hist[k].input = 0 ) =>
              LET d == hist[k-2].post
                  c == hist[k-1].newc
              IN  hist[k].out =
                      fsub(fsub(fadd(fmul(c.b1, d.x1), fmul(c.b2, d.x2)),
                                fmul(c.a1, d.y1)),
                           fmul(c.a2, d.y2))

\* run(non-zero), update_coefficients(new), run(0) returning a value that a
\* freshly built instance (which returns 0 for input 0) would not return
C4_Witness ==
    /\ Len(hist) = 3
    /\ hist[1].op = "run" /\ hist[1].input # 0 /\ hist[1].out # 0
    /\ hist[2].op = "update_coefficients" /\ hist[2].newc # hist[2].pre.coeffs
    /\ hist[3].op = "run" /\ hist[3].input = 0
    /\ hist[3].out # 0
    /\ hist[3].out # DirectForm1_run(DirectForm1_new(hist[2].newc), 0).out

\* C5 (SpecDF2): DirectForm2Transposed::update_coefficients installs the new
\* coefficients and leaves s1 and s2 as they were; the registers are zero at
\* construction and no call other than run changes them.
C5_UpdateKeepsRegisters ==
    /\ hist = <<>> => (df2.s1 = 0 /\ df2.s2 = 0)
    /\ \A k \in DOMAIN hist :
          hist[k].op # "run" =>
              /\ hist[k].post.s1 = hist[k].pre.s1
              /\ hist[k].post.s2 = hist[k].pre.s2
    /\ (hist # <<>> /\ Last.op = "update_coefficients") =>
          /\ df2.coeffs = Last.newc
          /\ df2.s1 = Last.pre.s1
          /\ df2.s2 = Last.pre.s2

\* an update_coefficients call on an instance whose registers are non-zero
C5_Witness ==
    /\ hist # <<>>
    /\ Last.op = "update_coefficients"
    /\ Last.newc # Last.pre.coeffs
    /\ Last.pre.s1 # 0 /\ Last.pre.s2 # 0
    /\ df2.s1 # 0 /\ df2.s2 # 0

\* the run calls recorded in hist, oldest first
Runs == SelectSeq(hist, LAMBDA h : h.op = "run")

\* field f of the n-th most recent run, 0 when there was no such run
Recent(n, f) ==
    IF Len(Runs) >= n THEN Runs[Len(Runs) + 1 - n][f] ELSE 0

\* C10 (SpecDF1): whatever run and update_coefficients calls were made, x1
\* and x2 are the inputs of the last and the last but one run, y1 and y2 the
\* values those runs returned, 0 standing for a run that has not happened.
C10_DelayLines ==
    /\ df1.x1 = Recent(1, "input")
    /\ df1.x2 = Recent(2, "input")
    /\ df1.y1 = Recent(1, "out")
    /\ df1.y2 = Recent(2, "out")

\* a run, an update_coefficients call, a second run: both delay lines hold
\* non-zero values that were put there on either side of the update
C10_Witness ==
    /\ Len(hist) = 3
    /\ hist[1].op = "run"
    /\ hist[2].op = "update_coefficients" /\ hist[2].newc # hist[2].pre.coeffs
    /\ hist[3].op = "run"
    /\ df1.x1 # 0 /\ df1.x2 # 0 /\ df1.y1 # 0 /\ df1.y2 # 0
    /\ df1.x1 # df1.x2 /\ df1.y1 # df1.y2

\* every operation of both instances up to and including sample k was exact
ExactUpTo(k) == \A j \in 1..k : hist[j].exact

\* C3 as stated (SpecPair): the two realizations, built from one coefficient
\* set and fed the same samples, return equal values at every sample index.
C3_OutputsAlwaysEqual ==
    \A k \in DOMAIN hist : hist[k].out1 = hist[k].out2

\* C3 as amended (SpecPair): the two realizations return equal values at
\* every sample index up to which no f32 operation of either has rounded.
C3_OutputsEqualWhileExact ==
    \A k \in DOMAIN hist : ExactUpTo(k) => hist[k].out1 = hist[k].out2

\* three or more samples, the last ones non-zero, through filters with all
\* five taps non-zero, without any rounding, with a non-zero result
C3_Witness ==
    /\ Len(hist) >= 3
    /\ ExactUpTo(Len(hist))
    /\ AllTapsNonZero(df1.coeffs)
    /\ \A k \in DOMAIN hist : hist[k].input # 0 /\ hist[k].out1 # 0
    /\ hist[2].out1 # hist[3].out1

C7_OutsideNyquist ==
    (api.fn = "from_params" /\ 2 * api.f0.hz >= api.fs.hz) =>
        api.res = Err("OutsideNyquist")

\* f0 exactly fs/2 together with q <= 0
C7_Witness ==
    /\ api.fn = "from_params"
    /\ api.fs.hz > 0
    /\ 2 * api.f0.hz = api.fs.hz
    /\ api.q <= 0
    /\ api.res = Err("OutsideNyquist")

C9_FromHz ==
    /\ api.fn = "from_hz" =>
          IF api.value >= 0
          THEN api.res.tag = "Ok" /\ api.res.value.hz = api.value
          ELSE api.res = Err("NegativeFrequency")
    /\ (api.fn = "hz" /\ api.value < 0) => api.res = Panic

\* from_hz(0) succeeding
C9_Witness ==
    /\ api.fn = "from_hz"
    /\ api.value = 0
    /\ api.res.tag = "Ok"
    /\ api.res.value.hz = 0

====
